---- MODULE Spec2Model ----
(***************************************************************************)
(* A model of z80count (src/z80count/z80count.py): the table-driven        *)
(* matcher (Parser), the running-total accumulator (update_counters), the  *)
(* comment formatter (format_line, comment_alignment, line_length) and the *)
(* per-line function z80count threaded by main.                            *)
(*                                                                         *)
(* A Python str is modelled as a sequence of one-character strings.        *)
(***************************************************************************)
EXTENDS Integers, Sequences, FiniteSets, TLC

VARIABLES
    raw_table,   \* the list json.load returned (z80table.json), kept for reference
    table,       \* Parser._table: mnemonic -> list of entries (dicts)
    opts,        \* the program arguments (args.subt, args.no_update, ...)
    total,       \* main's running total
    prev_total,  \* the total that entered the last z80count call
    nlines,      \* lines read so far
    line,        \* the last input line
    out,         \* the output written for it
    entry,       \* what parser.lookup returned for it (None or the entry)
    total_cond,  \* update_counters' second result for it (0 when no match)
    table2,      \* the second run's parser table           (SpecRerun, SpecPair)
    total2,      \* the second run's running total
    out2,        \* the second run's output for its last line
    entry2,      \* the second run's lookup result
    total_cond2, \* the second run's conditional total
    a_line,      \* comment_alignment's argument line       (SpecAlign)
    a_column,    \* its column
    a_use_tabs,  \* its use_tabs
    a_tab_width, \* its tab_width
    a_pad,       \* the spacing it returned
    a_done       \* whether it has been called

vars == << raw_table, table, opts, total, prev_total, nlines, line, out, entry,
           total_cond, table2, total2, out2, entry2, total_cond2,
           a_line, a_column, a_use_tabs, a_tab_width, a_pad, a_done >>

runVars == << raw_table, table, opts, total, prev_total, nlines, line, out,
              entry, total_cond >>
run2Vars == << table2, total2, out2, entry2, total_cond2 >>
alignVars == << a_line, a_column, a_use_tabs, a_tab_width, a_pad, a_done >>

(***************************************************************************)
(* Bounds of the model.                                                    *)
(***************************************************************************)
MaxLines == 2        \* lines main reads from the input file
MaxCodeLen == 4      \* characters of the code text given to comment_alignment
MaxColumn == 9       \* largest column given to comment_alignment
MaxTabWidth == 4     \* largest tab width given to comment_alignment

(***************************************************************************)
(* Program constants.                                                      *)
(***************************************************************************)
DEF_COLUMN == 50
DEF_TABSTOP == 8

\* Python's None where an entry (a dict) is expected, and where a str is expected
\* (an operator is never the empty string)
None == [ none |-> TRUE ]
NoStr == << >>
NL == "\n"
TAB == "\t"

(***************************************************************************)
(* Character classes of Python's re and str.                               *)
(***************************************************************************)
LowerCase == << "a","b","c","d","e","f","g","h","i","j","k","l","m",
                "n","o","p","q","r","s","t","u","v","w","x","y","z" >>
UpperCase == << "A","B","C","D","E","F","G","H","I","J","K","L","M",
                "N","O","P","Q","R","S","T","U","V","W","X","Y","Z" >>
Digits == << "0","1","2","3","4","5","6","7","8","9" >>

Range(f) == { f[i] : i \in DOMAIN f }

LowerChars == Range(LowerCase)
DigitChars == Range(Digits)
WordChars == Range(LowerCase) \cup Range(UpperCase) \cup Range(Digits) \cup { "_" }

\* str.upper on one character
upper(c) ==
    IF c \in LowerChars
    THEN UpperCase[CHOOSE i \in DOMAIN LowerCase : LowerCase[i] = c]
    ELSE c

\* str.upper
str_upper(s) == [ i \in DOMAIN s |-> upper(s[i]) ]

\* \s and str.strip's whitespace
IsSpace(c) == c \in { " ", TAB, NL }

\* \w
IsWord(c) == c \in WordChars

\* [$.\w]
IsLabelChar(c) == IsWord(c) \/ c \in { "$", "." }

\* [0-9.\s/]
IsOurChar(c) == c \in DigitChars \/ c = "." \/ IsSpace(c) \/ c = "/"

\* whether the character c is of the class: \s, \w, [$.\w], [0-9.\s/], or "."
\* (any character but a newline)
InClass(c, cls) ==
    CASE cls = "space" -> IsSpace(c)
      [] cls = "word" -> IsWord(c)
      [] cls = "label" -> IsLabelChar(c)
      [] cls = "our" -> IsOurChar(c)
      [] cls = "dot" -> c # NL

\* the length of the longest run of characters of the class that starts at s[from]
RunLen(s, from, cls) ==
    LET stops == { i \in from..Len(s) : ~InClass(s[i], cls) }
    IN IF from > Len(s) THEN 0
       ELSE IF stops = {} THEN Len(s) + 1 - from
       ELSE (CHOOSE i \in stops : \A j \in stops : i <= j) - from

Tail0(s, from) == SubSeq(s, from, Len(s))

\* str.rstrip()
rstrip(s) ==
    LET keep == { i \in DOMAIN s : ~IsSpace(s[i]) }
    IN IF keep = {} THEN << >>
       ELSE SubSeq(s, 1, CHOOSE i \in keep : \A j \in keep : j <= i)

\* str.lstrip()
lstrip(s) == Tail0(s, 1 + RunLen(s, 1, "space"))

\* str.find(sub, from): the first index >= from where sub occurs, 0 when none
find(s, sub, from) ==
    LET hits == { i \in from..(Len(s) - Len(sub) + 1) :
                    SubSeq(s, i, i + Len(sub) - 1) = sub }
    IN IF hits = {} THEN 0 ELSE CHOOSE i \in hits : \A j \in hits : i <= j

\* str.replace(old, ""), old non-empty: every non-overlapping occurrence, left to right
RECURSIVE replace_all(_, _)
replace_all(s, old) ==
    LET i == find(s, old, 1)
    IN IF i = 0 THEN s
       ELSE SubSeq(s, 1, i - 1) \o replace_all(Tail0(s, i + Len(old)), old)

\* str.rsplit(";", 1)
rsplit_semi(s) ==
    LET hits == { i \in DOMAIN s : s[i] = ";" }
    IN IF hits = {} THEN << s >>
       ELSE LET k == CHOOSE i \in hits : \A j \in hits : j <= i
            IN << SubSeq(s, 1, k - 1), Tail0(s, k + 1) >>

\* "%d" % n, n >= 0
RECURSIVE fmt_d(_)
fmt_d(n) ==
    IF n < 10 THEN << Digits[n + 1] >>
    ELSE fmt_d(n \div 10) \o << Digits[(n % 10) + 1] >>

\* int(s), s a string of decimal digits
RECURSIVE int(_)
int(s) ==
    IF Len(s) = 0 THEN 0
    ELSE 10 * int(SubSeq(s, 1, Len(s) - 1))
         + ((CHOOSE i \in DOMAIN Digits : Digits[i] = s[Len(s)]) - 1)

\* n copies of the character c; Python's c * n is "" for n <= 0
Times(c, n) == [ i \in 1..n |-> c ]

(***************************************************************************)
(* The formatter.                                                          *)
(***************************************************************************)

\* line_length(line, tab_width)
RECURSIVE line_length(_, _)
line_length(ln, tab_width) ==
    IF ln = << >> THEN 0
    ELSE LET length == line_length(SubSeq(ln, 1, Len(ln) - 1), tab_width)
         IN IF ln[Len(ln)] = TAB
            THEN ((length + tab_width) \div tab_width) * tab_width
            ELSE length + 1

\* comment_alignment, from the length that line_length returned
alignment_for(length, column, use_tabs, tab_width) ==
    LET expected_length == column - 1
        tab_stop == (expected_length \div tab_width) * tab_width + 1
        extra_tabs ==
            IF use_tabs /\ tab_stop > length
            THEN ((tab_stop - length) \div tab_width)
                 + (IF length % tab_width > 1 THEN 1 ELSE 0)
            ELSE 0
        extra_spaces ==
            IF use_tabs /\ tab_stop > length
            THEN expected_length - tab_stop
            ELSE expected_length - length
    IN IF length >= expected_length
       THEN << " " >>
       ELSE Times(TAB, extra_tabs) \o Times(" ", extra_spaces)

\* comment_alignment(line, column, use_tabs, tab_width)
comment_alignment(ln, column, use_tabs, tab_width) ==
    alignment_for(line_length(ln, tab_width), column, use_tabs, tab_width)

\* OUR_COMMENT.search(s).group(0), for OUR_COMMENT = "[", one or more of
\* [0-9.\s/], "]"; << >> when there is no match.  "[" and "]" are outside the
\* class, so from a given "[" the only possible match takes the whole run of
\* class characters, which a "]" must follow.
OUR_COMMENT_search(s) ==
    LET ends(i) == i + 1 + RunLen(s, i + 1, "our")
        hits == { i \in DOMAIN s :
                    s[i] = "[" /\ ends(i) > i + 1 /\ ends(i) <= Len(s) /\ s[ends(i)] = "]" }
    IN IF hits = {} THEN << >>
       ELSE SubSeq(s, CHOOSE h \in hits : \A j \in hits : h <= j,
                   ends(CHOOSE h \in hits : \A j \in hits : h <= j))

\* format_line: the comment it builds from the entry and the totals
format_comment(e, tot, tot_cond, subt, debug) ==
    LET c1 == << ";", " ", "[" >> \o e["cycles"]
        c2 == IF subt
              THEN IF tot_cond # 0
                   THEN c1 \o << " ", ".", ".", " " >> \o fmt_d(tot_cond)
                           \o << "/" >> \o fmt_d(tot) \o << "]" >>
                   ELSE c1 \o << " ", ".", ".", " " >> \o fmt_d(tot) \o << "]" >>
              ELSE c1 \o << "]" >>
    IN IF debug
       THEN c2 \o << " ", "c", "a", "s", "e", "{" >> \o e["case"] \o << "}" >>
       ELSE c2

\* format_line: what it does with an existing trailing comment (line[1])
format_trailing(trailing, update) ==
    LET m == IF update THEN OUR_COMMENT_search(trailing) ELSE << >>
    IN lstrip(IF m # << >> THEN replace_all(trailing, m) ELSE trailing)

\* format_line: the output, from the split line and the comment
format_assemble(parts, comment, update, column, use_tabs, tab_width) ==
    IF Len(parts) = 1
    THEN parts[1] \o comment_alignment(parts[1], column, use_tabs, tab_width)
            \o comment \o << NL >>
    ELSE parts[1] \o comment \o << " " >> \o format_trailing(parts[2], update)
            \o << NL >>

\* format_line(line, entry, total, total_cond, subt, update, column, debug,
\*             use_tabs, tab_width)
format_line(ln, e, tot, tot_cond, subt, update, column, debug, use_tabs, tab_width) ==
    format_assemble(rsplit_semi(rstrip(ln)),
                    format_comment(e, tot, tot_cond, subt, debug),
                    update, column, use_tabs, tab_width)

\* update_counters with the total advanced along the taken branch
update_counters_taken(e, tot) ==
    << tot + (IF e["_t_states_met"] # 0 THEN e["_t_states_met"]
              ELSE e["_t_states_or_not_met"]),
       IF e["_t_states_met"] # 0 THEN tot + e["_t_states_met"] ELSE 0 >>

\* update_counters with the total set to the cost instead of advanced by it
update_counters_reset(e, tot) ==
    << e["_t_states_or_not_met"],
       IF e["_t_states_met"] # 0 THEN tot + e["_t_states_met"] ELSE 0 >>

\* update_counters(entry, total): << total, total_cond >>
update_counters(e, tot) ==
    << tot + e["_t_states_or_not_met"],
       IF e["_t_states_met"] # 0 THEN tot + e["_t_states_met"] ELSE 0 >>

(***************************************************************************)
(* The parser.  A regular expression of the table is a sequence of tokens  *)
(* [k, c]: "lit" (the character c, compared ignoring case: re.I), "ws+"    *)
(* (one or more \s), "ws*" (any number of \s), "word+" (one or more \w)    *)
(* and "cmt?" (the optional group of a ";" and any characters but newline  *)
(* that _init_entry appends).                                              *)
(***************************************************************************)
Lit(c) == [ k |-> "lit", c |-> c ]
Tok(k) == [ k |-> k, c |-> "" ]

\* the positions a token can end at, started at any position of P
StepTok(tok, P, s) ==
    CASE tok.k = "lit" ->
           { p + 1 : p \in { q \in P : q <= Len(s) /\ upper(s[q]) = upper(tok.c) } }
      [] tok.k = "cmt?" ->
           P \cup UNION { { p + 1 + d : d \in 0..RunLen(s, p + 1, "dot") } :
                          p \in { q \in P : q <= Len(s) /\ s[q] = ";" } }
      [] OTHER ->
           UNION { { p + d : d \in (IF tok.k = "ws*" THEN 0 ELSE 1)
                                   ..RunLen(s, p, IF tok.k = "word+" THEN "word" ELSE "space") } :
                   p \in P }

RECURSIVE Reach(_, _, _, _)
Reach(pat, k, P, s) ==
    IF k > Len(pat) \/ P = {} THEN P
    ELSE Reach(pat, k + 1, StepTok(pat[k], P, s), s)

\* where "$" matches: at the end, or just before a newline that ends the string
AtEnd(p, s) == p = Len(s) + 1 \/ (p = Len(s) /\ s[p] = NL)

\* cregex.search(s) is not None, for cregex = "^" pat "$"
cregex_search(cregex, s) == \E p \in Reach(cregex, 1, {1}, s) : AtEnd(p, s)

\* Parser._LINE_RE.match(line): an optional label (characters of [$.\w] and
\* a ":"), optional whitespace, the operator (a run of \w), an optional rest
\* (whitespace, then any characters but newline), and "$".
\* The character classes that follow one another are disjoint, so every greedy
\* run is the maximal one and the label alternative excludes the other.  The
\* result is [ok, operator, rest]; rest is "" when the group did not take part.
NoMatch == [ ok |-> FALSE, operator |-> << >>, rest |-> << >> ]

\* the rest group and "$", the operator being s[b..c-1] and sp the whitespace after
LINE_RE_rest(s, b, c, sp) ==
    IF sp > 0 /\ AtEnd(c + sp + RunLen(s, c + sp, "dot"), s)
    THEN [ ok |-> TRUE, operator |-> SubSeq(s, b, c - 1),
           rest |-> SubSeq(s, c, c + sp + RunLen(s, c + sp, "dot") - 1) ]
    ELSE IF AtEnd(c, s)
         THEN [ ok |-> TRUE, operator |-> SubSeq(s, b, c - 1), rest |-> << >> ]
         ELSE NoMatch

\* the operator group, started at b and oplen characters long
LINE_RE_operator(s, b, oplen) ==
    IF oplen = 0 THEN NoMatch
    ELSE LINE_RE_rest(s, b, b + oplen, RunLen(s, b + oplen, "space"))

\* the whitespace before the operator, started at a
LINE_RE_space(s, a, sp) == LINE_RE_operator(s, a + sp, RunLen(s, a + sp, "word"))

\* the label group, lab being the run of label characters that starts the line
LINE_RE_label(s, lab) ==
    IF lab > 0 /\ lab + 1 <= Len(s) /\ s[lab + 1] = ":"
    THEN LINE_RE_space(s, lab + 2, RunLen(s, lab + 2, "space"))
    ELSE LINE_RE_space(s, 1, RunLen(s, 1, "space"))

LINE_RE_match(s) == LINE_RE_label(s, RunLen(s, 1, "label"))

\* match.group("operator").upper(), or None
group_operator(match) == IF match.ok THEN str_upper(match.operator) ELSE NoStr

\* match.group("operator") + rest, or None
group_line(match) == IF match.ok THEN match.operator \o match.rest ELSE NoStr

\* Parser._extract_mnemonic(line)
extract_mnemonic(ln) == group_operator(LINE_RE_match(ln))

\* Parser._remove_label(line)
remove_label(ln) == group_line(LINE_RE_match(ln))

\* Parser._init_entry(entry): the entry with its derived keys set
init_entry(e) ==
    LET cycles == e["cycles"]
        slash == find(cycles, << "/" >>, 1)
        after == Tail0(cycles, slash + 1)
        slash2 == find(after, << "/" >>, 1)
        c0 == SubSeq(cycles, 1, slash - 1)
        c1 == IF slash2 = 0 THEN after ELSE SubSeq(after, 1, slash2 - 1)
    IN ( "cregex" :> (<< Tok("ws*") >> \o e["regex"] \o << Tok("ws*"), Tok("cmt?") >>)
         @@ "_t_states_or_not_met" :> (IF slash # 0 THEN int(c1) ELSE int(cycles))
         @@ "_t_states_met" :> (IF slash # 0 THEN int(c0) ELSE 0)
         @@ "_initialized" :> TRUE
         @@ e )

\* lookup's loop body: if "_initialized" not in entry: self._init_entry(entry)
ensure_init(e) == IF "_initialized" \in DOMAIN e THEN e ELSE init_entry(e)

\* table.sort(key=lambda o: o["w"]): a stable sort, modelled as an insertion sort
\* that puts a record behind every record whose weight is not larger
RECURSIVE sort_by_w(_)
sort_by_w(tbl) ==
    IF Len(tbl) <= 1 THEN tbl
    ELSE LET front == sort_by_w(SubSeq(tbl, 1, Len(tbl) - 1))
             x == tbl[Len(tbl)]
             k == Cardinality({ i \in DOMAIN front : front[i]["w"] <= x["w"] })
         IN SubSeq(front, 1, k) \o << x >> \o SubSeq(front, k + 1, Len(front))

\* Parser._load_table: the grouping of the sorted list by mnemonic
group_by_mnemonic(sorted) ==
    LET of(m) == LET same(i) == extract_mnemonic(i["case"]) = m
                 IN SelectSeq(sorted, same)
    IN [ m \in { extract_mnemonic(sorted[i]["case"]) : i \in DOMAIN sorted } |-> of(m) ]

\* _load_table without its sort
load_table_unsorted(raw) == group_by_mnemonic(raw)

\* Parser._load_table(), from the list that json.load returned
load_table(raw) == group_by_mnemonic(sort_by_w(raw))

\* Parser.lookup's loop over self._table[mnemo]: the position of the first entry
\* whose cregex matches, 0 when none does
first_match(entries, stripped) ==
    LET hits == { i \in DOMAIN entries :
                    cregex_search(ensure_init(entries[i])["cregex"], stripped) }
    IN IF hits = {} THEN 0 ELSE CHOOSE i \in hits : \A j \in hits : i <= j

\* lookup moving the entry it returns to the front of its list
lookup_return_front(tbl, mnemo, k) ==
    [ entry |-> IF k = 0 THEN None ELSE ensure_init(tbl[mnemo][k]),
      table |-> [ tbl EXCEPT ![mnemo] =
                    IF k = 0 THEN [ i \in DOMAIN @ |-> ensure_init(@[i]) ]
                    ELSE << ensure_init(@[k]) >>
                         \o [ i \in 1..(k - 1) |-> ensure_init(@[i]) ]
                         \o SubSeq(@, k + 1, Len(@)) ] ]

\* Parser.lookup's loop, ended at position k (0: it ran to the end): the entry
\* returned and self._table, where every entry visited is initialized
lookup_return(tbl, mnemo, k) ==
    [ entry |-> IF k = 0 THEN None ELSE ensure_init(tbl[mnemo][k]),
      table |-> [ tbl EXCEPT ![mnemo] =
                    [ i \in DOMAIN @ |-> IF k = 0 \/ i <= k THEN ensure_init(@[i])
                                         ELSE @[i] ] ] ]

\* Parser.lookup, from the mnemonic and the line without its label
lookup_mnemo(tbl, mnemo, stripped) ==
    IF mnemo = NoStr \/ mnemo \notin DOMAIN tbl
    THEN [ entry |-> None, table |-> tbl ]
    ELSE lookup_return(tbl, mnemo, first_match(tbl[mnemo], stripped))

\* Parser.lookup(line): [entry, table], the entry returned (or None) and
\* self._table after the call
lookup(tbl, ln) == lookup_mnemo(tbl, extract_mnemonic(ln), remove_label(ln))

\* z80count writing an unmatched line as it was read
z80count_entry_untrimmed(ln, found, tot, counters, o) ==
    IF found.entry # None
    THEN [ out |-> format_line(ln, found.entry, counters[1], counters[2], o.subt,
                               ~o.no_update, o.column, o.debug, o.use_tabs,
                               o.tab_width),
           total |-> counters[1], entry |-> found.entry,
           total_cond |-> counters[2], table |-> found.table ]
    ELSE [ out |-> ln, total |-> tot, entry |-> None,
           total_cond |-> 0, table |-> found.table ]

\* z80count returning the conditional total as the running total
z80count_entry_cond(ln, found, tot, counters, o) ==
    IF found.entry # None
    THEN [ out |-> format_line(ln, found.entry, counters[1], counters[2], o.subt,
                               ~o.no_update, o.column, o.debug, o.use_tabs,
                               o.tab_width),
           total |-> IF counters[2] # 0 THEN counters[2] ELSE counters[1],
           entry |-> found.entry,
           total_cond |-> counters[2], table |-> found.table ]
    ELSE [ out |-> rstrip(ln) \o << NL >>, total |-> tot, entry |-> None,
           total_cond |-> 0, table |-> found.table ]

\* z80count, from what parser.lookup returned
z80count_entry(ln, found, tot, counters, o) ==
    IF found.entry # None
    THEN [ out |-> format_line(ln, found.entry, counters[1], counters[2], o.subt,
                               ~o.no_update, o.column, o.debug, o.use_tabs,
                               o.tab_width),
           total |-> counters[1], entry |-> found.entry,
           total_cond |-> counters[2], table |-> found.table ]
    ELSE [ out |-> rstrip(ln) \o << NL >>, total |-> tot, entry |-> None,
           total_cond |-> 0, table |-> found.table ]

\* update_counters(entry, total) when there is an entry
z80count_found(ln, found, tot, o) ==
    z80count_entry(ln, found, tot,
                   IF found.entry # None THEN update_counters(found.entry, tot)
                   ELSE << tot, 0 >>, o)

\* z80count(line, parser, total, subt, no_update, column, use_tabs, tab_width,
\*          debug): [out, total], with the entry and total_cond it computed and
\* the parser's table after the call
z80count(ln, tbl, tot, o) == z80count_found(ln, lookup(tbl, ln), tot, o)

(***************************************************************************)
(* The instruction table.  z80table.json is data read at start-up; the     *)
(* model loads a small table of the same shape: a catch-all and a specific *)
(* record of one mnemonic, and a conditional record, in any order.         *)
(***************************************************************************)
REC_LD_r ==
    [ case |-> << "L", "D", " ", "r" >>,
      regex |-> << Lit("L"), Lit("D"), Tok("ws+"), Tok("word+") >>,
      w |-> 2, cycles |-> << "7" >> ]
REC_LD_A ==
    [ case |-> << "L", "D", " ", "A" >>,
      regex |-> << Lit("L"), Lit("D"), Tok("ws+"), Lit("A") >>,
      w |-> 1, cycles |-> << "4" >> ]
REC_DJNZ(cycles) ==
    [ case |-> << "D", "J", "N", "Z", " ", "e" >>,
      regex |-> << Lit("D"), Lit("J"), Lit("N"), Lit("Z"), Tok("ws+"), Tok("word+") >>,
      w |-> 1, cycles |-> cycles ]

\* the cycles of the conditional record: "13/8", and "0/8" (a zero met cost)
CondCycles == { << "1", "3", "/", "8" >>, << "0", "/", "8" >> }

Permutations3 == { p \in [1..3 -> 1..3] : \A i, j \in 1..3 : i # j => p[i] # p[j] }

RawTables ==
    { [ i \in 1..3 |-> << REC_LD_r, REC_LD_A, REC_DJNZ(c) >>[p[i]] ] :
        p \in Permutations3, c \in CondCycles }

(***************************************************************************)
(* The program arguments.                                                  *)
(***************************************************************************)
AltColumn == 12
AltTabWidth == 4

Opt(s, n, d, column, use_tabs, tab_width) ==
    [ subt |-> s, no_update |-> n, debug |-> d,
      column |-> column, use_tabs |-> use_tabs, tab_width |-> tab_width ]

\* the defaults; -s; -n; -s -d; -t -c -T; and all of them
Options ==
    { Opt(FALSE, FALSE, FALSE, DEF_COLUMN, FALSE, DEF_TABSTOP),
      Opt(TRUE, FALSE, FALSE, DEF_COLUMN, FALSE, DEF_TABSTOP),
      Opt(FALSE, TRUE, FALSE, DEF_COLUMN, FALSE, DEF_TABSTOP),
      Opt(TRUE, FALSE, TRUE, DEF_COLUMN, FALSE, DEF_TABSTOP),
      Opt(FALSE, FALSE, FALSE, AltColumn, TRUE, AltTabWidth),
      Opt(TRUE, TRUE, TRUE, AltColumn, TRUE, AltTabWidth) }

(***************************************************************************)
(* The input lines.                                                        *)
(***************************************************************************)
\* \n
L_blank == << "\n" >>
\* ; x [4] \n
L_comment == << ";", " ", "x", " ", "[", "4", "]", " ", "\n" >>
\* l:\n
L_label == << "l", ":", "\n" >>
\* XY A \t\n
L_unknown == << "X", "Y", " ", "A", " ", "\t", "\n" >>
\* LD\n
L_operand == << "L", "D", "\n" >>
\* LD A,B\n
L_extra == << "L", "D", " ", "A", ",", "B", "\n" >>
\* LD;x\n
L_semi == << "L", "D", ";", "x", "\n" >>
\* LD A\n
L_plain == << "L", "D", " ", "A", "\n" >>
\* l: ld a\n
L_lower == << "l", ":", " ", "l", "d", " ", "a", "\n" >>
\* \tLD B\n
L_tab == << "\t", "L", "D", " ", "B", "\n" >>
\* DJNZ l\n
L_cond == << "D", "J", "N", "Z", " ", "l", "\n" >>
\*  LD A
L_nonl == << " ", "L", "D", " ", "A" >>
\* LD A ; x\n
L_human == << "L", "D", " ", "A", " ", ";", " ", "x", "\n" >>
\* LD A ; [4]\n
L_ann == << "L", "D", " ", "A", " ", ";", " ", "[", "4", "]", "\n" >>
\* LD B ; [7 .. 7] x\n
L_ann_x == << "L", "D", " ", "B", " ", ";", " ", "[", "7", " ", ".", ".", " ", "7", "]", " ", "x", "\n" >>
\* LD A ; [4] x [4]\n
L_dup == << "L", "D", " ", "A", " ", ";", " ", "[", "4", "]", " ", "x", " ", "[", "4", "]", "\n" >>
\* LD A ; [ab] [4] [7]\n
L_other == << "L", "D", " ", "A", " ", ";", " ", "[", "a", "b", "]", " ", "[", "4", "]", " ", "[", "7", "]", "\n" >>
\* DJNZ l ; [13/8 .. 13/8]\n
L_cond_ann == << "D", "J", "N", "Z", " ", "l", " ", ";", " ", "[", "1", "3", "/", "8", " ", ".", ".", " ", "1", "3", "/", "8", "]", "\n" >>
\* LD A ;\n
L_empty_cmt == << "L", "D", " ", "A", " ", ";", "\n" >>
\* LD A ; [4] ; y\n
L_two_semi == << "L", "D", " ", "A", " ", ";", " ", "[", "4", "]", " ", ";", " ", "y", "\n" >>

Lines ==
    { L_blank,
      L_comment,
      L_label,
      L_unknown,
      L_operand,
      L_extra,
      L_semi,
      L_plain,
      L_lower,
      L_tab,
      L_cond,
      L_nonl,
      L_human,
      L_ann,
      L_ann_x,
      L_dup,
      L_other,
      L_cond_ann,
      L_empty_cmt,
      L_two_semi }

(***************************************************************************)
(* main: one parser, total = 0, then z80count for every line of the input. *)
(***************************************************************************)
AlignIdle ==
    /\ a_line = << >> /\ a_column = 1 /\ a_use_tabs = FALSE /\ a_tab_width = 1
    /\ a_pad = << >> /\ a_done = FALSE

Run2Idle ==
    /\ table2 = << >> /\ total2 = 0 /\ out2 = << >> /\ entry2 = None
    /\ total_cond2 = 0

RunInit ==
    /\ raw_table \in RawTables
    /\ table = load_table(raw_table)
    /\ opts \in Options
    /\ total = 0
    /\ prev_total = 0
    /\ nlines = 0
    /\ line = << >>
    /\ out = << >>
    /\ entry = None
    /\ total_cond = 0

Init == RunInit /\ Run2Idle /\ AlignIdle

\* the body of main's loop for the line ln
ReadLine(ln) ==
    /\ nlines < MaxLines
    /\ \E r \in { z80count(ln, table, total, opts) } :
          /\ table' = r.table
          /\ total' = r.total
          /\ out' = r.out
          /\ entry' = r.entry
          /\ total_cond' = r.total_cond
    /\ nlines' = nlines + 1
    /\ line' = ln
    /\ prev_total' = total
    /\ UNCHANGED << raw_table, opts >>

\* the body of the loop of a second run of main, for the line ln
ReadLine2(ln) ==
    \E r \in { z80count(ln, table2, total2, opts) } :
       /\ table2' = r.table
       /\ total2' = r.total
       /\ out2' = r.out
       /\ entry2' = r.entry
       /\ total_cond2' = r.total_cond

ProcessLine ==
    \E ln \in Lines : ReadLine(ln) /\ UNCHANGED run2Vars /\ UNCHANGED alignVars

Next == ProcessLine

Spec == Init /\ [][Next]_vars

(***************************************************************************)
(* Two passes: main over the input, and main again (a new parser, total =  *)
(* 0, the same arguments, update enabled) over what the first pass wrote.  *)
(* A line of the second pass depends on the first pass only through the    *)
(* output line at the same position, so the passes advance together.       *)
(***************************************************************************)
RerunInit ==
    /\ RunInit
    /\ ~opts.no_update
    /\ table2 = load_table(raw_table)
    /\ total2 = 0 /\ out2 = << >> /\ entry2 = None /\ total_cond2 = 0
    /\ AlignIdle

RerunLine ==
    \E ln \in Lines :
       /\ ReadLine(ln)
       /\ ReadLine2(z80count(ln, table, total, opts).out)
       /\ UNCHANGED alignVars

RerunNext == RerunLine

SpecRerun == RerunInit /\ [][RerunNext]_vars

(***************************************************************************)
(* Two runs of main over the same input, whose tables differ only in the   *)
(* met cost of the conditional record.                                     *)
(***************************************************************************)
\* the met costs of the second table
AltMets == { << "5" >>, << "2", "1" >> }

\* the raw table with every conditional cost "M/N" made "met/N"
with_met(raw, met) ==
    [ i \in DOMAIN raw |->
        IF find(raw[i]["cycles"], << "/" >>, 1) # 0
        THEN [ raw[i] EXCEPT !["cycles"] =
                 met \o Tail0(@, find(@, << "/" >>, 1)) ]
        ELSE raw[i] ]

PairInit ==
    /\ RunInit
    /\ raw_table[1] = REC_LD_r
    /\ \E met \in AltMets : table2 = load_table(with_met(raw_table, met))
    /\ total2 = 0 /\ out2 = << >> /\ entry2 = None /\ total_cond2 = 0
    /\ AlignIdle

PairLine ==
    \E ln \in Lines : ReadLine(ln) /\ ReadLine2(ln) /\ UNCHANGED alignVars

PairNext == PairLine

SpecPair == PairInit /\ [][PairNext]_vars

(***************************************************************************)
(* comment_alignment alone, on any code text of tabs and other characters. *)
(***************************************************************************)
CodeTexts == UNION { [ 1..n -> { "x", TAB } ] : n \in 0..MaxCodeLen }

RunIdle ==
    /\ raw_table = << >> /\ table = << >>
    /\ opts = Opt(FALSE, FALSE, FALSE, DEF_COLUMN, FALSE, DEF_TABSTOP)
    /\ total = 0 /\ prev_total = 0 /\ nlines = 0 /\ line = << >> /\ out = << >>
    /\ entry = None /\ total_cond = 0

AlignInit ==
    /\ RunIdle /\ Run2Idle
    /\ a_line \in CodeTexts
    /\ a_column \in 1..MaxColumn
    /\ a_use_tabs \in BOOLEAN
    /\ a_tab_width \in 1..MaxTabWidth
    /\ a_pad = << >>
    /\ a_done = FALSE

Align ==
    /\ ~a_done
    /\ a_pad' = comment_alignment(a_line, a_column, a_use_tabs, a_tab_width)
    /\ a_done' = TRUE
    /\ UNCHANGED << a_line, a_column, a_use_tabs, a_tab_width >>
    /\ UNCHANGED runVars /\ UNCHANGED run2Vars

AlignNext == Align

SpecAlign == AlignInit /\ [][AlignNext]_vars

(***************************************************************************)
(* The properties.                                                         *)
(***************************************************************************)
Matched == nlines > 0 /\ entry # None
Unmatched == nlines > 0 /\ entry = None
IsConditional(e) == e # None /\ find(e["cycles"], << "/" >>, 1) # 0

\* the costs (met M, not met N) that the cycles strings of the table stand for
CostOf(cycles) ==
    CASE cycles = << "4" >> -> [ met |-> 0, not_met |-> 4 ]
      [] cycles = << "7" >> -> [ met |-> 0, not_met |-> 7 ]
      [] cycles = << "1", "3", "/", "8" >> -> [ met |-> 13, not_met |-> 8 ]
      [] cycles = << "0", "/", "8" >> -> [ met |-> 0, not_met |-> 8 ]

\* C1: after a matched line the total is the total before plus the record's
\* not-met (or only) cost N, and the conditional total is the total before plus
\* the met cost M when M is not zero, and 0 otherwise.
C1_UpdateCounters ==
    Matched =>
        /\ total = prev_total + CostOf(entry["cycles"]).not_met
        /\ total_cond = IF CostOf(entry["cycles"]).met # 0
                        THEN prev_total + CostOf(entry["cycles"]).met
                        ELSE 0

\* a conditional record matched at a total that is not zero: the two totals differ
C1_Witness ==
    /\ Matched /\ prev_total > 0
    /\ entry["cycles"] = << "1", "3", "/", "8" >>
    /\ total_cond = prev_total + 13 /\ total = prev_total + 8

\* C2: when lookup returns nothing the output is the line without its trailing
\* whitespace, then one newline, and the total is unchanged, under any options.
C2_Unmatched ==
    Unmatched =>
        /\ total = prev_total
        /\ total_cond = 0
        /\ \E k \in 0..Len(line) :
              /\ out = SubSeq(line, 1, k) \o << NL >>
              /\ k = 0 \/ ~IsSpace(line[k])
              /\ \A j \in (k + 1)..Len(line) : IsSpace(line[j])

\* an unknown mnemonic with trailing blanks, after a matched line, subtotals on
C2_Witness ==
    /\ Unmatched /\ line = L_unknown /\ out = << "X", "Y", " ", "A", NL >>
    /\ opts.subt /\ opts.debug /\ prev_total > 0

\* C3: a second pass over the output of the first, update enabled, writes the
\* same lines and ends with the same total.
C3_RerunIdentical == nlines > 0 => (out2 = out /\ total2 = total)

\* C4: the running total never decreases from one line to the next and is never
\* negative.
C4_Monotonic == total >= prev_total /\ prev_total >= 0

\* two matched lines in a row
C4_Witness == nlines = 2 /\ prev_total > 0 /\ total > prev_total

\* C5: two runs that differ only in the met cost of the conditional record
\* have the same running total after every line, and the same output for every
\* line that did not match the conditional record itself.
C5_MetNeverStored ==
    /\ total2 = total
    /\ (nlines > 0 /\ ~IsConditional(entry)) => out2 = out

\* line A matched the conditional record and showed two different conditional
\* totals; then line B, matched and annotated with subtotals
C5_WitnessA == Matched /\ IsConditional(entry) /\ total_cond # total_cond2
C5_Witness ==
    /\ nlines = 2 /\ prev_total = 8 /\ Matched /\ ~IsConditional(entry)
    /\ opts.subt /\ out2 = out

\* C6: the records of every mnemonic are stored by ascending weight; lookup
\* returns the first record of its mnemonic whose pattern matches; and when the
\* line matches a weight-1 and a weight-2 record of its mnemonic, the weight-1
\* record is returned, whatever the order of the raw table.
PatternMatches(e, ln) == cregex_search(init_entry(e)["cregex"], remove_label(ln))
C6_Priority ==
    /\ \A m \in DOMAIN table : \A i, j \in DOMAIN table[m] :
          i < j => table[m][i]["w"] <= table[m][j]["w"]
    /\ Matched =>
          \E k \in DOMAIN table[extract_mnemonic(line)] :
             /\ table[extract_mnemonic(line)][k] = entry
             /\ PatternMatches(entry, line)
             /\ \A i \in 1..(k - 1) :
                   ~PatternMatches(table[extract_mnemonic(line)][i], line)
    /\ nlines > 0 =>
          \A a, b \in DOMAIN raw_table :
             ( /\ raw_table[a]["w"] = 1 /\ raw_table[b]["w"] = 2
               /\ extract_mnemonic(raw_table[a]["case"]) = extract_mnemonic(line)
               /\ extract_mnemonic(raw_table[b]["case"]) = extract_mnemonic(line)
               /\ PatternMatches(raw_table[a], line)
               /\ PatternMatches(raw_table[b], line) )
             => (entry # None /\ entry["case"] = raw_table[a]["case"])

\* the raw table lists the weight-2 record first, and the line matches both
C6_Witness ==
    /\ Matched /\ line = L_lower /\ raw_table[1] = REC_LD_r
    /\ PatternMatches(REC_LD_r, line) /\ PatternMatches(REC_LD_A, line)
    /\ entry["case"] = REC_LD_A["case"] /\ entry["w"] = 1

\* C7: with update enabled, when the trailing comment of a matched line holds a
\* previous annotation, the output is the code part, the new annotation, a
\* space, and the trailing comment with only the found substring cut out (and
\* its leading whitespace dropped).
C7_OnlyFoundRemoved ==
    LET parts == rsplit_semi(rstrip(line))
        m == OUR_COMMENT_search(parts[2])
        i == find(parts[2], m, 1)
    IN (Matched /\ ~opts.no_update /\ Len(parts) = 2 /\ m # << >>) =>
          out = parts[1]
                  \o format_comment(entry, total, total_cond, opts.subt, opts.debug)
                  \o << " " >>
                  \o lstrip(SubSeq(parts[2], 1, i - 1) \o Tail0(parts[2], i + Len(m)))
                  \o << NL >>

\* C8: when the code text is shorter than column - 1, the code text and the
\* spacing together are column - 1 long (tabs counted to the next tab stop).
C8_ExactColumn ==
    (a_done /\ line_length(a_line, a_tab_width) < a_column - 1) =>
        line_length(a_line \o a_pad, a_tab_width) = a_column - 1

C10_NeverEmpty == a_done => Len(a_pad) >= 1
====
